---- MODULE Spec2Model ----
(***************************************************************************)
(* Model of backend/app.py: the POST /analyze handler                      *)
(* (analyze_emotions_final) together with generate_summary_with_groq and   *)
(* generate_explanations_with_groq.  One request is followed from its      *)
(* arrival to its response; every call to a collaborator (the two local    *)
(* classifiers, the Groq chat-completion API) is one step whose outcome    *)
(* is chosen by the environment.                                           *)
(*                                                                         *)
(* Strings that the code transforms (strip, capitalize, lower) are         *)
(* sequences of one-character strings; other texts are sequences of        *)
(* tokens.  Confidences are integers n standing for n/MaxScore, and a      *)
(* normalised score is the exact rational [num, den].                      *)
(***************************************************************************)
EXTENDS Integers, Sequences, FiniteSets, TLC

\* ---------------------------------------------------------------- bounds
\* Confidences are drawn from {0/MaxScore, ..., MaxScore/MaxScore}.
MaxScore == 2

\* ------------------------------------------------------ program constants
\* emotion_results[:4]
TopK == 4

\* The labels of the classifier's vocabulary, in the order the classifier
\* lists them: the first keys of EMOJI_MAP, then a label the table does not
\* know.  There is one label more than the slice of line 106 keeps, so
\* that the slice drops a label.
Vocabulary == <<"admiration", "amusement", "anger", "annoyance", "unlisted">>

\* EMOJI_MAP (glyphs are written by name).
EMOJI_MAP ==
  [l \in {"admiration", "amusement", "anger", "annoyance", "approval", "caring", "neutral"} |->
     CASE l = "admiration" -> "star-struck"
       [] l = "amusement"  -> "tears-of-joy"
       [] l = "anger"      -> "pouting"
       [] l = "annoyance"  -> "unamused"
       [] l = "approval"   -> "thumbs-up"
       [] l = "caring"     -> "hugging"
       [] l = "neutral"    -> "neutral-face"]

\* EMOJI_MAP.get(label, neutral glyph)
EmojiGet(label) ==
  IF label \in DOMAIN EMOJI_MAP THEN EMOJI_MAP[label] ELSE "neutral-face"

\* ------------------------------------------------------- string functions
LowerChars == <<"p", "o", "s", "i", "t", "v", "e", "n", "g", "a">>
UpperChars == <<"P", "O", "S", "I", "T", "V", "E", "N", "G", "A">>

ToUpper(c) ==
  IF \E i \in DOMAIN LowerChars : LowerChars[i] = c
    THEN UpperChars[CHOOSE i \in DOMAIN LowerChars : LowerChars[i] = c]
    ELSE c

ToLower(c) ==
  IF \E i \in DOMAIN UpperChars : UpperChars[i] = c
    THEN LowerChars[CHOOSE i \in DOMAIN UpperChars : UpperChars[i] = c]
    ELSE c

\* str.lower()
Lower(s) == [i \in DOMAIN s |-> ToLower(s[i])]

\* str.capitalize(): first character upper-cased, the rest lower-cased
Capitalize(s) == [i \in DOMAIN s |-> IF i = 1 THEN ToUpper(s[i]) ELSE ToLower(s[i])]

RECURSIVE LStrip(_)
LStrip(s) == IF s # <<>> /\ Head(s) = " " THEN LStrip(Tail(s)) ELSE s

RECURSIVE RStrip(_)
RStrip(s) ==
  IF s # <<>> /\ s[Len(s)] = " " THEN RStrip(SubSeq(s, 1, Len(s) - 1)) ELSE s

\* str.strip()
Strip(s) == RStrip(LStrip(s))

POSITIVE == <<"P", "O", "S", "I", "T", "I", "V", "E">>
NEGATIVE == <<"N", "E", "G", "A", "T", "I", "V", "E">>
Negative == <<"N", "e", "g", "a", "t", "i", "v", "e">>
Positive == <<"P", "o", "s", "i", "t", "i", "v", "e">>

\* ------------------------------------------------------------ environment
\* The JSON bodies of the requests: an object whose "text" is absent, null
\* or a string.
Texts == {<<>>, <<" ">>, <<" ", " ">>, <<" ", "a", " ">>}

Bodies ==
  {[kind |-> "absent", text |-> <<>>], [kind |-> "null", text |-> <<>>]}
    \cup {[kind |-> "string", text |-> t] : t \in Texts}

\* What the emotion classifier can return for a text: the first n labels
\* of its vocabulary (none, some or all), each with any confidence, in
\* vocabulary order.
EmotionOutputs ==
  UNION {{[i \in 1..n |-> [label |-> Vocabulary[i], score |-> f[i]]] :
            f \in [1..n -> 0..MaxScore]} : n \in 0..Len(Vocabulary)}

\* What the sentiment classifier can return: the better of its two classes
\* (id2label of the model: POSITIVE, NEGATIVE), so a confidence of at least
\* one half.
SentimentLabels == {POSITIVE, NEGATIVE}

SentimentOutputs ==
  {[label |-> l, score |-> s] :
     l \in SentimentLabels, s \in {x \in 0..MaxScore : 2 * x >= MaxScore}}

\* message.content of a chat completion that returned: a text that names a
\* label, with white space around it.
RemoteContents == {<<" ", "love", " ">>}

\* -------------------------------------------------------------- the state
VARIABLES
  groq_client,       \* TRUE: a client was constructed; FALSE: None
  pc,                \* position of the handler
  data,              \* request.get_json()
  user_text,
  emotion_output,    \* what the emotion classifier returned
  top_emotions_raw,
  sentiment_result,  \* what the sentiment classifier returned
  sentiment_data,
  summary,
  explanations,      \* dict label -> explanation
  calls,             \* the calls made to collaborators, in order
  response

vars ==
  <<groq_client, pc, data, user_text, emotion_output, top_emotions_raw,
    sentiment_result, sentiment_data, summary, explanations, calls, response>>

NoSentiment == [label |-> <<>>, score |-> 0]

NoResponse ==
  [status |-> 0, error |-> "", sentiment |-> NoSentiment, summary |-> <<>>,
   emotions |-> <<>>]

ErrorResponse(code, msg) ==
  [status |-> code, error |-> msg, sentiment |-> NoSentiment, summary |-> <<>>,
   emotions |-> <<>>]

\* An exception raised outside the try block leaves the handler.
Unhandled == ErrorResponse(500, "unhandled exception")

\* The handler's except clause reporting the exception itself.
InternalErrorWithDetail == ErrorResponse(500, "IndexError: list index out of range")

\* except Exception: return jsonify({"error": ...}), 500
InternalError == ErrorResponse(500, "An internal error occurred during analysis.")

NoText == ErrorResponse(400, "No text provided.")

\* One entry of the log of calls.
Call(kind, label, raised, content) ==
  [kind |-> kind, label |-> label, raised |-> raised, content |-> content]

EmptyDict == [l \in {} |-> <<>>]

Init ==
  /\ groq_client \in BOOLEAN
  /\ pc = "start"
  /\ data = [kind |-> "absent", text |-> <<>>]
  /\ user_text = <<>>
  /\ emotion_output = <<>>
  /\ top_emotions_raw = <<>>
  /\ sentiment_result = NoSentiment
  /\ sentiment_data = NoSentiment
  /\ summary = <<>>
  /\ explanations = EmptyDict
  /\ calls = <<>>
  /\ response = NoResponse

\* ------------------------------------------------------- pure computations
\* The text taken as it comes, without strip().
UserTextNoStrip(body) == IF body.kind = "absent" THEN <<>> ELSE body.text

\* data.get('text', '').strip(), for a text that is absent or a string
UserText(body) == Strip(IF body.kind = "absent" THEN <<>> ELSE body.text)

\* list.sort(key=score, reverse=True): stable, descending
RECURSIVE InsertDesc(_, _)
InsertDesc(x, s) ==
  IF s = <<>> THEN <<x>>
  ELSE IF Head(s).score > x.score THEN <<Head(s)>> \o InsertDesc(x, Tail(s))
  ELSE <<x>> \o s

\* The list left in the order the classifier returned it.
SortDescSkipped(s) == s

RECURSIVE SortDesc(_)
SortDesc(s) == IF s = <<>> THEN <<>> ELSE InsertDesc(Head(s), SortDesc(Tail(s)))

\* A slice one element too long.
SliceOffByOne(s) == SubSeq(s, 1, IF Len(s) < TopK + 1 THEN Len(s) ELSE TopK + 1)

\* emotion_results[:4]
Slice(s) == SubSeq(s, 1, IF Len(s) < TopK THEN Len(s) ELSE TopK)

TopEmotions(emotion_results) == Slice(SortDesc(emotion_results))

\* The comparison made with the label as the classifier spells it.
SignedScoreRawLabel(label, score) == IF label = NEGATIVE THEN (-1) * score ELSE score

\* if sentiment_label == 'Negative': sentiment_score *= -1
SignedScore(label, score) == IF label = Negative THEN (-1) * score ELSE score

SentimentData(result) ==
  [label |-> Capitalize(result.label),
   score |-> SignedScore(Capitalize(result.label), result.score)]

\* The f-string of generate_summary_with_groq (emotions is not empty).
SummaryFallback(sentiment, emotions) ==
  <<"You seem to feel mostly", emotions[1].label, "and the overall mood is">>
    \o Lower(sentiment.label) \o <<".">>

ExplanationFallback(label) == <<"The overall tone of the text suggests", label, ".">>

DefaultExplanation == <<"This emotion is detected based on your words.">>

\* The dict rebuilt at each iteration instead of updated.
DictSetReplace(d, label, text) == [l \in {label} |-> text]

\* explanations[label] = text
DictSet(d, label, text) ==
  [l \in DOMAIN d \cup {label} |-> IF l = label THEN text ELSE d[l]]

\* explanations.get(label, default)
DictGet(d, label) == IF label \in DOMAIN d THEN d[label] ELSE DefaultExplanation

\* sum(e['score'] for e in top_emotions_raw)
RECURSIVE SumScores(_)
SumScores(s) == IF s = <<>> THEN 0 ELSE Head(s).score + SumScores(Tail(s))

NeutralEmotion ==
  [label |-> "neutral", score |-> [num |-> 1, den |-> 1],
   explanation |-> <<"No significant emotion was detected.">>,
   emoji |-> "neutral-face"]

\* Equal shares when the confidences sum to zero, neutral only when there
\* is no candidate.
FinalEmotionsEqualShares(top, expl) ==
  IF top = <<>> THEN <<NeutralEmotion>>
  ELSE [i \in DOMAIN top |->
          [label |-> top[i].label,
           score |-> IF SumScores(top) > 0
                       THEN [num |-> top[i].score, den |-> SumScores(top)]
                       ELSE [num |-> 1, den |-> Len(top)],
           explanation |-> DictGet(expl, top[i].label),
           emoji |-> EmojiGet(top[i].label)]]

\* Lines 123-137: the normalised emotions, or the neutral fallback.
FinalEmotions(top, expl) ==
  IF SumScores(top) > 0
    THEN [i \in DOMAIN top |->
            [label |-> top[i].label,
             score |-> [num |-> top[i].score, den |-> SumScores(top)],
             explanation |-> DictGet(expl, top[i].label),
             emoji |-> EmojiGet(top[i].label)]]
    ELSE <<NeutralEmotion>>

\* Lines 141-147
FinalAnalysis(expl) ==
  [status |-> 200, error |-> "", sentiment |-> sentiment_data, summary |-> summary,
   emotions |-> FinalEmotions(top_emotions_raw, expl)]

\* ------------------------------------------------------------ the handler
\* Lines 96-99.
Receive ==
  /\ pc = "start"
  /\ \E body \in Bodies :
       /\ data' = body
       /\ IF body.kind = "null"
            THEN \* None.strip() raises outside the try block
                 /\ user_text' = user_text
                 /\ response' = Unhandled
                 /\ pc' = "done"
            ELSE /\ user_text' = UserText(body)
                 /\ IF UserText(body) = <<>>
                      THEN response' = NoText /\ pc' = "done"
                      ELSE response' = response /\ pc' = "emotion"
  /\ UNCHANGED <<groq_client, emotion_output, top_emotions_raw, sentiment_result, sentiment_data,
                 summary, explanations, calls>>

\* Lines 103-106: the emotion classifier returns, returns data the handler
\* cannot read, or raises.
ClassifyEmotions ==
  /\ pc = "emotion"
  /\ \/ \E out \in EmotionOutputs :
          /\ calls' = Append(calls, Call("emotion", "", FALSE, <<>>))
          /\ emotion_output' = out
          /\ top_emotions_raw' = TopEmotions(out)
          /\ pc' = "sentiment"
          /\ response' = response
     \/ \E raised \in BOOLEAN :
          /\ calls' = Append(calls, Call("emotion", "", raised, <<>>))
          /\ UNCHANGED <<emotion_output, top_emotions_raw>>
          /\ pc' = "done"
          /\ response' = InternalError
  /\ UNCHANGED <<groq_client, data, user_text, sentiment_result, sentiment_data,
                 summary, explanations>>

\* Lines 108-113.
ClassifySentiment ==
  /\ pc = "sentiment"
  /\ \/ \E out \in SentimentOutputs :
          /\ calls' = Append(calls, Call("sentiment", "", FALSE, <<>>))
          /\ sentiment_result' = out
          /\ sentiment_data' = SentimentData(out)
          /\ pc' = "summary"
          /\ response' = response
     \/ \E raised \in BOOLEAN :
          /\ calls' = Append(calls, Call("sentiment", "", raised, <<>>))
          /\ UNCHANGED <<sentiment_result, sentiment_data>>
          /\ pc' = "done"
          /\ response' = InternalError
  /\ UNCHANGED <<groq_client, data, user_text, emotion_output, top_emotions_raw, summary,
                 explanations>>

\* The return of the f-string of lines 46 and 66: emotions[0] raises
\* IndexError on an empty list, which the handler's except clause catches.
ReturnSummaryFallback ==
  IF top_emotions_raw = <<>>
    THEN /\ summary' = summary
         /\ pc' = "done"
         /\ response' = InternalError
    ELSE /\ summary' = SummaryFallback(sentiment_data, top_emotions_raw)
         /\ pc' = "explain"
         /\ response' = response

\* Line 119 and generate_summary_with_groq without a client (lines 45-46).
SummaryWithoutClient ==
  /\ pc = "summary"
  /\ ~groq_client
  /\ ReturnSummaryFallback
  /\ UNCHANGED <<groq_client, data, user_text, emotion_output, top_emotions_raw, sentiment_result,
                 sentiment_data, explanations, calls>>

\* Line 119 and generate_summary_with_groq with a client (lines 49-66).
SummaryCall ==
  /\ pc = "summary"
  /\ groq_client
  /\ \/ \E content \in RemoteContents :
          /\ calls' = Append(calls, Call("summary", "", FALSE, content))
          /\ summary' = Strip(content)
          /\ pc' = "explain"
          /\ response' = response
     \/ /\ calls' = Append(calls, Call("summary", "", TRUE, <<>>))
        /\ ReturnSummaryFallback
  /\ UNCHANGED <<groq_client, data, user_text, emotion_output, top_emotions_raw, sentiment_result,
                 sentiment_data, explanations>>

\* Line 71: the dict comprehension when there is no client.
DefaultExplanations(emotions) ==
  [l \in {emotions[i].label : i \in DOMAIN emotions} |-> DefaultExplanation]

\* Line 120 without a client, then lines 123-147.
ExplainWithoutClient ==
  /\ pc = "explain"
  /\ ~groq_client
  /\ explanations' = DefaultExplanations(top_emotions_raw)
  /\ response' = FinalAnalysis(DefaultExplanations(top_emotions_raw))
  /\ pc' = "done"
  /\ UNCHANGED <<groq_client, data, user_text, emotion_output, top_emotions_raw, sentiment_result,
                 sentiment_data, summary, calls>>

\* What a chat completion call can do: raise, or return a content.
RemoteReplies ==
  {[raised |-> TRUE, content |-> <<>>]}
    \cup {[raised |-> FALSE, content |-> c] : c \in RemoteContents}

\* The explanation one call leaves for its label (lines 85-89).
ExplanationOf(label, reply) ==
  IF reply.raised THEN ExplanationFallback(label) ELSE Strip(reply.content)

\* The loop calling a second time for an emotion whose call raised.
RECURSIVE ExplainLoopRetry(_, _, _, _, _)
ExplainLoopRetry(emotions, replies, i, d, log) ==
  IF i > Len(emotions) THEN [explanations |-> d, calls |-> log]
  ELSE LET label == emotions[i].label
           entry == Call("explain", label, replies[i].raised, replies[i].content)
       IN ExplainLoopRetry(emotions, replies, i + 1,
                           DictSet(d, label, ExplanationOf(label, replies[i])),
                           IF replies[i].raised
                             THEN Append(Append(log, entry), entry)
                             ELSE Append(log, entry))

\* The loop of lines 73-91, from its i-th iteration on: replies[i] is what
\* the call of the i-th emotion does, d the dict so far, log the calls made
\* so far.  The result is the dict returned and the calls made.
RECURSIVE ExplainLoop(_, _, _, _, _)
ExplainLoop(emotions, replies, i, d, log) ==
  IF i > Len(emotions) THEN [explanations |-> d, calls |-> log]
  ELSE LET label == emotions[i].label IN
         ExplainLoop(emotions, replies, i + 1,
                     DictSet(d, label, ExplanationOf(label, replies[i])),
                     Append(log, Call("explain", label, replies[i].raised,
                                      replies[i].content)))

\* Line 120 with a client (lines 73-91), then lines 123-147.
ExplainWithClient ==
  /\ pc = "explain"
  /\ groq_client
  /\ \E replies \in [DOMAIN top_emotions_raw -> RemoteReplies] :
       LET done == ExplainLoop(top_emotions_raw, replies, 1, EmptyDict, calls) IN
         /\ explanations' = done.explanations
         /\ calls' = done.calls
         /\ response' = FinalAnalysis(done.explanations)
  /\ pc' = "done"
  /\ UNCHANGED <<groq_client, data, user_text, emotion_output, top_emotions_raw,
                 sentiment_result, sentiment_data, summary>>

Next ==
  \/ Receive
  \/ ClassifyEmotions
  \/ ClassifySentiment
  \/ SummaryWithoutClient
  \/ SummaryCall
  \/ ExplainWithoutClient
  \/ ExplainWithClient

Spec == Init /\ [][Next]_vars

TypeOK ==
  /\ groq_client \in BOOLEAN
  /\ pc \in {"start", "emotion", "sentiment", "summary", "explain", "done"}
  /\ response.status \in {0, 200, 400, 500}
  /\ (pc = "done") = (response.status # 0)

\* ------------------------------------------------------------- properties
\* A text of white space only (or no text at all).
IsBlank(body) ==
  body.kind = "absent"
    \/ (body.kind = "string" /\ \A i \in DOMAIN body.text : body.text[i] = " ")

HasText(body) == body.kind = "string" /\ \E i \in DOMAIN body.text : body.text[i] # " "

CountCalls(kind, label) ==
  Cardinality({i \in DOMAIN calls : calls[i].kind = kind /\ calls[i].label = label})

RemoteCalls == {i \in DOMAIN calls : calls[i].kind \in {"summary", "explain"}}

\* Exact arithmetic on the rationals [num, den], den > 0.
RECURSIVE RatSum(_)
RatSum(s) ==
  IF s = <<>> THEN [num |-> 0, den |-> 1]
  ELSE LET h == Head(s).score
           r == RatSum(Tail(s))
       IN [num |-> h.num * r.den + r.num * h.den, den |-> h.den * r.den]

RatGeq(a, b) == a.num * b.den >= b.num * a.den

RatEq(a, b) == a.num * b.den = b.num * a.den

\* The entries of the classifier's output that fewer than TopK entries
\* precede in the order of decreasing confidence.
CandidateLabels ==
  {emotion_output[i].label : i \in
     {i \in DOMAIN emotion_output :
        Cardinality({j \in DOMAIN emotion_output :
                       \/ emotion_output[j].score > emotion_output[i].score
                       \/ /\ emotion_output[j].score = emotion_output[i].score
                          /\ j < i}) < TopK}}

\* C1: a request whose text is missing, empty or white space only is
\* answered 400 {"error": "No text provided."}, and no classifier and no
\* remote service has been called.
C1_BlankTextRejected ==
  (pc # "start" /\ IsBlank(data)) =>
    /\ pc = "done"
    /\ response.status = 400
    /\ response.error = "No text provided."
    /\ calls = <<>>

C1_Witness ==
  /\ pc = "done"
  /\ data.kind = "string"
  /\ data.text = <<" ", " ">>
  /\ response.status = 400

\* C2: a request with a non-empty text ends with 200 and a complete
\* analysis (sentiment, summary, emotions) or with 500 and the generic
\* error body, whatever the classifiers and the remote service did; before
\* the end nothing has been answered.
C2_OnlyTwoOutcomes ==
  (pc # "start" /\ HasText(data)) =>
    IF pc = "done"
      THEN \/ /\ response.status = 500
              /\ response.error = "An internal error occurred during analysis."
              /\ response.emotions = <<>>
           \/ /\ response.status = 200
              /\ response.error = ""
              /\ response.sentiment.label \in {Positive, Negative}
              /\ response.emotions # <<>>
      ELSE response.status = 0

C2_Witness ==
  /\ pc = "done"
  /\ HasText(data)
  /\ response.status = 500
  /\ \E i \in DOMAIN calls : calls[i].kind = "summary" /\ calls[i].raised

\* C3: in a 200 response the scores of the emotions sum to exactly 1 and
\* are in non-increasing order.
C3_ScoresSumToOneAndSorted ==
  response.status = 200 =>
    /\ RatEq(RatSum(response.emotions), [num |-> 1, den |-> 1])
    /\ \A i \in DOMAIN response.emotions : response.emotions[i].score.den > 0
    /\ \A i \in 1..(Len(response.emotions) - 1) :
         RatGeq(response.emotions[i].score, response.emotions[i + 1].score)

\* The classifier's output was not in order and had more than TopK entries.
C3_Witness ==
  /\ response.status = 200
  /\ Len(emotion_output) > TopK
  /\ emotion_output[1].score < emotion_output[Len(emotion_output)].score
  /\ Len(response.emotions) = TopK
  /\ response.emotions[1].score.num > response.emotions[TopK].score.num
  /\ response.emotions[TopK].score.num > 0

C5_EmptyCandidatesNeutral ==
  (response.status = 200 /\ top_emotions_raw = <<>>) =>
    /\ Len(response.emotions) = 1
    /\ response.emotions[1].label = "neutral"
    /\ RatEq(response.emotions[1].score, [num |-> 1, den |-> 1])
    /\ \A i \in DOMAIN calls :
         (calls[i].kind = "summary" /\ ~calls[i].raised) =>
           response.summary # Strip(calls[i].content)

\* C6 as stated: candidates whose confidences sum to zero all appear in the
\* response, each with the score 1/count.
C6_EqualShares ==
  (response.status = 200 /\ top_emotions_raw # <<>> /\ SumScores(top_emotions_raw) = 0) =>
    /\ Len(response.emotions) = Len(top_emotions_raw)
    /\ \A i \in DOMAIN response.emotions :
         /\ response.emotions[i].label = top_emotions_raw[i].label
         /\ RatEq(response.emotions[i].score,
                  [num |-> 1, den |-> Len(top_emotions_raw)])

\* C6 (amended): candidates whose confidences sum to zero are replaced in
\* the response by the single emotion "neutral" with score 1.
C6_ZeroSumNeutral ==
  ( /\ response.status = 200
    /\ top_emotions_raw # <<>>
    /\ \A i \in DOMAIN top_emotions_raw : top_emotions_raw[i].score = 0 ) =>
    /\ Len(response.emotions) = 1
    /\ response.emotions[1].label = "neutral"
    /\ RatEq(response.emotions[1].score, [num |-> 1, den |-> 1])
    /\ response.emotions[1].explanation = <<"No significant emotion was detected.">>

C6_Witness ==
  /\ response.status = 200
  /\ Len(top_emotions_raw) = TopK
  /\ \A i \in DOMAIN top_emotions_raw : top_emotions_raw[i].score = 0
  /\ response.emotions[1].label = "neutral"

\* C7: with a client, in a 200 response every candidate
\* has had its call, whatever the other calls did; its explanation is the
\* text returned by its own call or, when that call raised, the fallback
\* naming its own label; the response carries these explanations; and the
\* summary is decided by the summary call alone.
C7_PerCallIsolation ==
  (groq_client /\ pc \in {"explain", "done"} /\ response.status \in {0, 200}) =>
    /\ \A i \in RemoteCalls :
         calls[i].kind = "summary" =>
           summary = IF calls[i].raised
                       THEN <<"You seem to feel mostly", top_emotions_raw[1].label,
                              "and the overall mood is">>
                              \o Lower(sentiment_data.label) \o <<".">>
                       ELSE Strip(calls[i].content)
    /\ \A k \in 1..Len(top_emotions_raw) :
         response.status = 200 =>
           LET label == top_emotions_raw[k].label IN
             /\ CountCalls("explain", label) = 1
             /\ label \in DOMAIN explanations
             /\ \A i \in RemoteCalls :
                  (calls[i].kind = "explain" /\ calls[i].label = label) =>
                    explanations[label] =
                      IF calls[i].raised
                        THEN <<"The overall tone of the text suggests", label, ".">>
                        ELSE Strip(calls[i].content)
    /\ \A k \in DOMAIN response.emotions :
         response.emotions[k].label # "neutral" =>
           /\ response.emotions[k].label \in DOMAIN explanations
           /\ response.emotions[k].explanation = explanations[response.emotions[k].label]
    /\ response.status = 200 => response.summary = summary

\* The summary call and the first and third explanation calls raised.
C7_Witness ==
  /\ response.status = 200
  /\ Len(response.emotions) = TopK
  /\ Len(calls) = 3 + TopK
  /\ calls[3].raised
  /\ calls[4].raised
  /\ ~calls[5].raised
  /\ calls[6].raised
  /\ response.emotions[1].explanation =
       <<"The overall tone of the text suggests", response.emotions[1].label, ".">>
  /\ response.emotions[2].explanation = <<"love">>

\* C8: the summary call is made at most once and the explanation call of
\* each label at most once, so at most 1 + TopK remote calls; without a
\* client there is no remote call.
C8_NoRetry ==
  /\ CountCalls("summary", "") <= 1
  /\ \A i \in RemoteCalls :
       calls[i].kind = "explain" => CountCalls("explain", calls[i].label) = 1
  /\ Cardinality(RemoteCalls) <= 1 + TopK
  /\ ~groq_client => RemoteCalls = {}

C8_Witness ==
  /\ pc = "done"
  /\ Cardinality(RemoteCalls) = 1 + TopK
  /\ \A i \in RemoteCalls : calls[i].raised

\* C9: in a 200 response the sentiment label is the classifier's label
\* capitalised, the score is negative exactly when the label is
\* "Negative", and its magnitude is the classifier's confidence.
C9_SignedSentiment ==
  response.status = 200 =>
    /\ sentiment_result.label = POSITIVE => response.sentiment.label = Positive
    /\ sentiment_result.label = NEGATIVE => response.sentiment.label = Negative
    /\ response.sentiment.label \in {Positive, Negative}
    /\ (response.sentiment.score < 0) = (response.sentiment.label = Negative)
    /\ response.sentiment.score =
         IF response.sentiment.label = Negative
           THEN 0 - sentiment_result.score
           ELSE sentiment_result.score

C9_Witness ==
  /\ response.status = 200
  /\ sentiment_result.label = NEGATIVE
  /\ response.sentiment.label = Negative
  /\ response.sentiment.score = 0 - MaxScore

\* C10: every label of a 200 response is one of the TopK best entries of
\* the classifier's output or the synthesised "neutral"; the label named
\* by the remote text does not appear; there are at most TopK emotions.
C10_OnlyCandidateLabels ==
  response.status = 200 =>
    /\ Len(response.emotions) <= TopK
    /\ \A k \in DOMAIN response.emotions :
         /\ response.emotions[k].label \in CandidateLabels \cup {"neutral"}
         /\ response.emotions[k].label # "love"

C10_Witness ==
  /\ response.status = 200
  /\ Len(emotion_output) > TopK
  /\ Len(response.emotions) = TopK
  /\ \E i \in RemoteCalls : ~calls[i].raised /\ calls[i].content = <<" ", "love", " ">>
  /\ \E k \in DOMAIN response.emotions : response.emotions[k].explanation = <<"love">>

====
